---- MODULE Spec2Model ----
(***************************************************************************)
(* The approval-and-release workflow of the inventory management server    *)
(* (src/server/routes.ts, src/shared/schema.ts): the inventory ledger, the *)
(* inventory requests and released-order requests with their reviews, and  *)
(* the Generate step that deducts stock and records a report.              *)
(*                                                                         *)
(* Every route handler is a small state machine over the database.  An     *)
(* `await storage.*` is a point where another handler may run, so a        *)
(* handler is cut into steps between its reads and its writes (a loop of   *)
(* reads only, or the loop that creates the items of one call, is one      *)
(* step; a loop that notifies is cut at each insert and at the push that   *)
(* follows it).  Step(db, call) is that machine.  The sequential           *)
(* specifications run a handler to completion in one action (Run); the     *)
(* concurrent ones interleave the steps of two handlers.                   *)
(*                                                                         *)
(* Money is counted in whole cents, on which toFixed(2), toString() and    *)
(* the numeric(12,2) columns are exact.                                    *)
(***************************************************************************)
EXTENDS Integers, Sequences, FiniteSets, Bags, TLC

VARIABLES inv, invReqs, relReqs, reports, notifs, calls

vars == <<inv, invReqs, relReqs, reports, notifs, calls>>
data == <<inv, invReqs, relReqs, reports, notifs>>

(***************************************************************************)
(* Bounds of the model.                                                    *)
(***************************************************************************)
MaxItems == 2
MaxInvReqs == 1
MaxRelReqs == 1
MaxReports == 2
MaxNotifs == 6
MaxReqItems == 2

(***************************************************************************)
(* Users and their session roles.                                          *)
(***************************************************************************)
Admins == {"a1", "a2"}
Employees == {"e1", "e2"}
Users == Admins \cup Employees

Role(u) == IF u \in Admins THEN "admin" ELSE "employee"

\* requireRole(roles): the handler runs only for a session whose role is listed.
requireRole(roles, u) == Role(u) \in roles

(***************************************************************************)
(* Small helpers.                                                          *)
(***************************************************************************)
Undefined == [undefined |-> TRUE]

Range(s) == {s[i] : i \in DOMAIN s}

SeqsUpTo(S, n) == UNION {[1..k -> S] : k \in 0..n}

RECURSIVE SumSeq(_)
SumSeq(s) == IF s = <<>> THEN 0 ELSE Head(s) + SumSeq(Tail(s))

\* { ...item, ...data }: the fields of data override those of item.
Merge(item, upd) ==
    [f \in DOMAIN item \cup DOMAIN upd |->
        IF f \in DOMAIN upd THEN upd[f] ELSE item[f]]

\* The database as one value, so that a handler step is a function of it.
DB == [inv |-> inv, invReqs |-> invReqs, relReqs |-> relReqs,
       reports |-> reports, notifs |-> notifs]

Res(db, call) == [db |-> db, call |-> call]

\* The category_history and audit_events tables are only ever inserted into and
\* no handler modelled reads them: the model keeps of them, with each call, the
\* rows that call inserted (history, audit), in the order of insertion, and
\* likewise the socket events the call emitted (emitted).
Journal(call) ==
    [f \in DOMAIN call \cap {"history", "audit", "emitted"} |-> call[f]]

\* The handler has sent its response (res.json / res.status(..).json): its locals
\* are gone, what is left is who called what and how it ended.
Finish(call, outcome) ==
    Merge([op |-> call.op, pc |-> "done", outcome |-> outcome, user |-> call.user],
          Journal(call))

\* The same, keeping the locals named in keep for the response body.
FinishWith(call, outcome, keep) == Merge(Finish(call, outcome), keep)

Goto(call, pc) == [call EXCEPT !.pc = pc]

NoCall == [op |-> "none", pc |-> "done", outcome |-> "none", user |-> "a1"]

(***************************************************************************)
(* Storage (DbStorage).  Ids are fresh uuids: the position in the table.   *)
(***************************************************************************)
createInventoryItem(db, item) == [db EXCEPT !.inv = Append(@, item)]

getInventoryItemById(db, id) ==
    IF id \in DOMAIN db.inv THEN db.inv[id] ELSE Undefined

updateInventoryItem(db, id, upd) ==
    IF id \in DOMAIN db.inv
    THEN [db EXCEPT !.inv[id] = Merge(@, upd)]
    ELSE db

\* db.insert(categoryHistory).values(entry), db.insert(auditEvents).values(event).
addCategoryHistory(call, entry) == [call EXCEPT !.history = Append(@, entry)]

logAuditEvent(call, event) == [call EXCEPT !.audit = Append(@, event)]

\* The notifications table as a bag of rows (userId, type).
createNotification(db, n) == [db EXCEPT !.notifs = @ (+) SetToBag({n})]

(***************************************************************************)
(* itemPayloadSchema: the zod schema of an item payload.                   *)
(***************************************************************************)
itemPayloadSchema(v) == v.quantity > 0 /\ v.unitCost >= 0 /\ v.amount >= 0

\* Inputs: item payloads as a caller may send them (one is invalid).
PayloadQuantities == {0, 2}
PayloadUnitCosts == {3}
PayloadAmounts == {0, 5}
ItemPayloads == [quantity : PayloadQuantities, unitCost : PayloadUnitCosts,
                 amount : PayloadAmounts]

\* Inputs: the payloads of an inventory request.
RequestPayloads == [quantity : {0, 1, 2}, unitCost : {3}, amount : {5}]

\* Get or create the category by its name.  categories.name is unique, so the
\* name stands for the category's id; an item without a categoryName has a
\* null categoryId, which the model writes as no categoryId field.
Category(payload) ==
    IF "categoryName" \in DOMAIN payload
    THEN [categoryId |-> payload.categoryName]
    ELSE <<>>

Categorized(item) == "categoryId" \in DOMAIN item

\* The category_history row of a new item, and the audit_events row.
ItemAdded(item, id) ==
    [categoryId |-> item.categoryId, itemId |-> id, changeType |-> "item_added"]

Audit(action, id) == [entityId |-> id, action |-> action]

(***************************************************************************)
(* POST /api/inventory: an admin adds one item.                            *)
(***************************************************************************)
CreateInventoryCall(u, body) ==
    [op |-> "createInventory", pc |-> "create", outcome |-> "none",
     user |-> u, body |-> body, history |-> <<>>, audit |-> <<>>]

\* Lines 356-385: the rows logged for the item just created under id.
LogCreated(call, item, id) ==
    logAuditEvent(IF Categorized(item)
                  THEN addCategoryHistory(call, ItemAdded(item, id))
                  ELSE call,
                  Audit("create", id))

CreateAmount(validated) ==
    IF validated.amount # 0 THEN validated.amount
    ELSE validated.quantity * validated.unitCost

CreateInventoryStep(db, call) ==
    IF ~requireRole({"admin"}, call.user) THEN Res(db, Finish(call, "forbidden"))
    ELSE IF ~itemPayloadSchema(call.body) THEN Res(db, Finish(call, "validation"))
    ELSE LET validated == call.body
             item == Merge([quantity |-> validated.quantity,
                            unitCost |-> validated.unitCost,
                            amount |-> CreateAmount(validated)],
                           Category(validated))
             id == Len(db.inv) + 1
         IN Res(createInventoryItem(db, item),
                Finish(LogCreated(call, item, id), "ok"))

(***************************************************************************)
(* POST /api/inventory/bulk: an admin adds several items; the loop parses  *)
(* and creates item by item, so a bad payload stops it after the earlier   *)
(* items were created.                                                     *)
(***************************************************************************)
BulkCreateCall(u, items) ==
    [op |-> "bulkCreate", pc |-> "create", outcome |-> "none",
     user |-> u, items |-> items, history |-> <<>>, audit |-> <<>>]

BulkAmount(validated) == validated.quantity * validated.unitCost

RECURSIVE BulkLoop(_, _, _)
BulkLoop(db, call, items) ==
    IF items = <<>> THEN Res(db, Finish(call, "ok"))
    ELSE IF ~itemPayloadSchema(Head(items)) THEN Res(db, Finish(call, "validation"))
    ELSE LET validated == Head(items)
             item == Merge([quantity |-> validated.quantity,
                            unitCost |-> validated.unitCost,
                            amount |-> BulkAmount(validated)],
                           Category(validated))
             id == Len(db.inv) + 1
         IN BulkLoop(createInventoryItem(db, item), LogCreated(call, item, id),
                     Tail(items))

BulkCreateStep(db, call) ==
    IF ~requireRole({"admin"}, call.user) THEN Res(db, Finish(call, "forbidden"))
    ELSE IF call.items = <<>> THEN Res(db, Finish(call, "validation"))
    ELSE BulkLoop(db, call, call.items)

(***************************************************************************)
(* PATCH /api/inventory/:id: an admin edits an item.  The body is a        *)
(* partial insertInventoryItemSchema: any subset of the fields.            *)
(***************************************************************************)
PatchQuantities == {-1}
PatchUnitCosts == {2}
PatchAmounts == {5}
PatchBodies ==
    {b \in UNION {[D -> PatchQuantities \cup PatchUnitCosts \cup PatchAmounts] :
                    D \in SUBSET {"quantity", "unitCost", "amount"}} :
        /\ ("quantity" \in DOMAIN b => b.quantity \in PatchQuantities)
        /\ ("unitCost" \in DOMAIN b => b.unitCost \in PatchUnitCosts)
        /\ ("amount" \in DOMAIN b => b.amount \in PatchAmounts)}

UpdateInventoryCall(u, id, body) ==
    [op |-> "updateInventory", pc |-> "load", outcome |-> "none",
     user |-> u, id |-> id, body |-> body, history |-> <<>>, audit |-> <<>>]

\* Lines 496-502: the amount is recomputed only when quantity or unitCost is sent.
PatchUpdateData(before, body) ==
    IF "quantity" \in DOMAIN body \/ "unitCost" \in DOMAIN body
    THEN LET newQty == IF "quantity" \in DOMAIN body THEN body.quantity
                       ELSE before.quantity
             newCost == IF "unitCost" \in DOMAIN body THEN body.unitCost
                        ELSE before.unitCost
         IN Merge(body, [amount |-> newQty * newCost])
    ELSE body

\* Lines 507-509: which change the history row names.
ChangeType(upd) ==
    IF "quantity" \in DOMAIN upd THEN "quantity_change"
    ELSE IF "location" \in DOMAIN upd THEN "location_change"
    ELSE "cost_change"

\* Lines 506-541: the rows logged for an edit of the item before by upd.
LogUpdated(call, before, upd) ==
    logAuditEvent(
        IF Categorized(before)
           /\ DOMAIN upd \cap {"quantity", "location", "unitCost"} # {}
        THEN addCategoryHistory(call,
                [categoryId |-> before.categoryId, itemId |-> call.id,
                 changeType |-> ChangeType(upd)])
        ELSE call,
        Audit("update", call.id))

UpdateInventoryStep(db, call) ==
    IF call.pc = "load"
    THEN IF ~requireRole({"admin"}, call.user) THEN Res(db, Finish(call, "forbidden"))
         ELSE LET before == getInventoryItemById(db, call.id)
              IN IF before = Undefined THEN Res(db, Finish(call, "notfound"))
                 ELSE Res(db, Merge(Goto(call, "update"),
                                    [body |-> PatchUpdateData(before, call.body),
                                     before |-> before]))
    ELSE Res(updateInventoryItem(db, call.id, call.body),
             Finish(LogUpdated(call, call.before, call.body), "ok"))

(***************************************************************************)
(* Storage of the two request tables and of the reports.                   *)
(***************************************************************************)
\* The columns a new request row gets by default: status pending, itemStatuses
\* and reviewedBy null.
NewRequest ==
    [itemStatuses |-> <<>>, status |-> "pending", reviewedBy |-> "nobody"]

createInventoryRequest(db, request) ==
    [db EXCEPT !.invReqs = Append(@, Merge(request, NewRequest))]

getInventoryRequestById(db, id) ==
    IF id \in DOMAIN db.invReqs THEN db.invReqs[id] ELSE Undefined

updateInventoryRequestStatus(db, id, status, reviewedBy, itemStatuses) ==
    IF id \in DOMAIN db.invReqs
    THEN [db EXCEPT !.invReqs[id] = Merge(@,
            [status |-> status, reviewedBy |-> reviewedBy,
             itemStatuses |-> itemStatuses])]
    ELSE db

\* A storage method that sets the first line of a new request aside.
createReleasedOrderRequest_Reserving(db, request) ==
    LET line == request.items[1]
        item == line.inventoryItemId
    IN [db EXCEPT
          !.relReqs = Append(@, Merge(request, NewRequest)),
          !.inv = IF item \in DOMAIN @
                  THEN [@ EXCEPT ![item].quantity = @ - line.quantity]
                  ELSE @]

createReleasedOrderRequest(db, request) ==
    [db EXCEPT !.relReqs = Append(@, Merge(request, NewRequest))]

getReleasedOrderRequestById(db, id) ==
    IF id \in DOMAIN db.relReqs THEN db.relReqs[id] ELSE Undefined

\* A storage method that, on a status other than denied, also takes the first
\* line of the request out of the stock.
updateReleasedOrderRequestStatus_Deducting(db, id, status, reviewedBy, itemStatuses) ==
    IF id \in DOMAIN db.relReqs
    THEN LET line == db.relReqs[id].items[1]
             item == line.inventoryItemId
         IN [db EXCEPT
               !.relReqs[id] = Merge(@, [status |-> status, reviewedBy |-> reviewedBy,
                                         itemStatuses |-> itemStatuses]),
               !.inv = IF status # "denied" /\ item \in DOMAIN @
                       THEN [@ EXCEPT ![item].quantity = @ - line.quantity]
                       ELSE @]
    ELSE db

updateReleasedOrderRequestStatus(db, id, status, reviewedBy, itemStatuses) ==
    IF id \in DOMAIN db.relReqs
    THEN [db EXCEPT !.relReqs[id] = Merge(@,
            [status |-> status, reviewedBy |-> reviewedBy,
             itemStatuses |-> itemStatuses])]
    ELSE db

createReleasedOrderReport(db, report) == [db EXCEPT !.reports = Append(@, report)]

\* Lines 88-105: the socket events a call has emitted so far, to one user's
\* room or to every connected client.
emitNotification(emitted, userId) ==
    emitted (+) SetToBag({[event |-> "notification", to |-> userId]})

emitRequestChange(emitted, type) ==
    emitted (+) SetToBag({[event |-> "request_change:" \o type, to |-> "all"]})

\* A filter that keeps every user.
AdminsAmong_Everyone(allUsers) == allUsers

\* allUsers.filter(u => u.role === "admin")
AdminsAmong(allUsers) == {u \in allUsers : Role(u) = "admin"}

\* A loop that pushes to the admin first and inserts the row afterwards.
FanOut_PushFirst(db, call) ==
    LET admin == CHOOSE a \in call.todo : TRUE
    IN IF call.pc = "notify"
       THEN Res(db, Goto([call EXCEPT !.emitted = emitNotification(@, admin)],
                         "push"))
       ELSE Res(createNotification(db, [userId |-> admin, type |-> "alert"]),
                Goto([call EXCEPT !.todo = @ \ {admin}], "notify"))

\* One turn of  for (const admin of admins) { await createNotification({userId:
\* admin.id, type: "alert"}); emitNotification(admin.id, ..) }  in two steps:
\* at notify the row is inserted, at push (the insert has returned) the event
\* is emitted.  call.todo is the admins the loop has not reached yet.
FanOut(db, call) ==
    LET admin == CHOOSE a \in call.todo : TRUE
    IN IF call.pc = "notify"
       THEN Res(createNotification(db, [userId |-> admin, type |-> "alert"]),
                Goto(call, "push"))
       ELSE Res(db, Goto([call EXCEPT !.emitted = emitNotification(@, admin),
                                      !.todo = @ \ {admin}],
                         "notify"))

\* itemStatuses[index.toString()] = entry
Put(itemStatuses, index, entry) ==
    [i \in DOMAIN itemStatuses \cup {index} |->
        IF i = index THEN entry ELSE itemStatuses[i]]

\* items[index] of a JavaScript array (0-based): undefined outside it.
At(items, index) ==
    IF index + 1 \in DOMAIN items THEN items[index + 1] ELSE Undefined

(***************************************************************************)
(* POST /api/requests/single and /bulk: an employee asks to add items.     *)
(***************************************************************************)
SubmitRequestCall(u, requestType, items) ==
    [op |-> "submitRequest", pc |-> "create", outcome |-> "none",
     user |-> u, requestType |-> requestType, items |-> items,
     emitted |-> EmptyBag]

SubmitRequestStep(db, call) ==
    IF call.pc = "create"
    THEN IF call.items = <<>> \/ \E i \in DOMAIN call.items :
                                    ~itemPayloadSchema(call.items[i])
         THEN Res(db, Finish(call, "validation"))
         ELSE Res(createInventoryRequest(db,
                    [employeeId |-> call.user, requestType |-> call.requestType,
                     items |-> call.items]),
                  Merge(Goto(call, "notify"), [todo |-> AdminsAmong(Users)]))
    ELSE IF call.todo # {} THEN FanOut(db, call)
    ELSE Res(db, Finish([call EXCEPT !.emitted = emitRequestChange(@, "create")],
                        "ok"))

(***************************************************************************)
(* PATCH /api/requests/:id: an admin reviews an inventory request.         *)
(* body = {status, itemDecisions?}.                                        *)
(***************************************************************************)
ReviewRequestCall(u, id, body) ==
    [op |-> "reviewRequest", pc |-> "load", outcome |-> "none",
     user |-> u, id |-> id, body |-> body, history |-> <<>>, audit |-> <<>>,
     emitted |-> EmptyBag]

\* Lines 743-784 and 801-843: the approved payload becomes an inventory item.
ApprovedItem(itemData) ==
    Merge([quantity |-> itemData.quantity, unitCost |-> itemData.unitCost,
           amount |-> itemData.quantity * itemData.unitCost],
          Category(itemData))

\* Lines 757-784 and 815-843: the item is created and, when its category
\* resolved, one category_history row is inserted; no audit event is logged.
CreateApproved(st, itemData) ==
    LET item == ApprovedItem(itemData)
        id == Len(st.db.inv) + 1
        created == [st EXCEPT !.db = createInventoryItem(@, item),
                              !.createdItems = Append(@, id)]
    IN IF Categorized(item) THEN addCategoryHistory(created, ItemAdded(item, id))
       ELSE created

\* Lines 733-788: the loop over the per-item decisions.  st is the handler's
\* locals (itemStatuses, approvedCount, deniedCount, createdItems), the db and
\* the category_history rows inserted so far.
RECURSIVE DecisionLoop(_, _, _)
DecisionLoop(st, items, decisions) ==
    IF decisions = <<>> THEN st
    ELSE LET decision == Head(decisions)
             marked == [st EXCEPT !.itemStatuses =
                            Put(@, decision.index, decision.status)]
         IN IF decision.status = "approved"
            THEN LET itemData == At(items, decision.index)
                 IN IF itemData = Undefined
                    THEN \* itemData.categoryName of undefined: a TypeError
                         [marked EXCEPT !.approvedCount = @ + 1, !.thrown = TRUE]
                    ELSE DecisionLoop(
                           CreateApproved([marked EXCEPT !.approvedCount = @ + 1],
                                          itemData),
                           items, Tail(decisions))
            ELSE DecisionLoop([marked EXCEPT !.deniedCount = @ + 1],
                              items, Tail(decisions))

\* Lines 797-850: one outcome for every item.
RECURSIVE BlanketLoop(_, _, _, _)
BlanketLoop(st, items, status, i) ==
    IF i >= Len(items) THEN st
    ELSE IF status = "approved"
    THEN BlanketLoop(
            [CreateApproved(st, At(items, i)) EXCEPT
                !.itemStatuses = Put(@, i, "approved")],
            items, status, i + 1)
    ELSE BlanketLoop([st EXCEPT !.itemStatuses = Put(@, i, "denied")],
                     items, status, i + 1)

\* Lines 791-792.
FinalStatus(approvedCount, deniedCount, n) ==
    IF approvedCount = n THEN "approved"
    ELSE IF deniedCount = n THEN "denied" ELSE "partial"

\* Line 731: which of the two paths the review takes.
PerItemPath(request, body) ==
    request.requestType = "bulk" /\ "itemDecisions" \in DOMAIN body

ReviewRequestStep(db, call) ==
    CASE call.pc = "load" ->
           IF ~requireRole({"admin"}, call.user)
           THEN Res(db, FinishWith(call, "forbidden", [id |-> call.id]))
           ELSE LET request == getInventoryRequestById(db, call.id)
                IN IF request = Undefined THEN Res(db, FinishWith(call, "notfound", [id |-> call.id]))
                   ELSE Res(db, Merge(Goto(call, "process"), [request |-> request]))
      [] call.pc = "process" ->
           LET st0 == [db |-> db, itemStatuses |-> <<>>, approvedCount |-> 0,
                       deniedCount |-> 0, createdItems |-> <<>>, thrown |-> FALSE,
                       history |-> call.history]
               items == call.request.items
               st == IF PerItemPath(call.request, call.body)
                     THEN DecisionLoop(st0, items, call.body.itemDecisions)
                     ELSE BlanketLoop(st0, items, call.body.status, 0)
               status == IF PerItemPath(call.request, call.body)
                         THEN FinalStatus(st.approvedCount, st.deniedCount, Len(items))
                         ELSE call.body.status
               logged == [call EXCEPT !.history = st.history]
           IN IF st.thrown
              THEN Res(st.db, FinishWith(logged, "error",
                          [id |-> call.id, createdItems |-> st.createdItems]))
              ELSE Res(st.db, Merge(Goto(logged, "persist"),
                          [itemStatuses |-> st.itemStatuses,
                           approvedCount |-> st.approvedCount,
                           deniedCount |-> st.deniedCount,
                           createdItems |-> st.createdItems,
                           status |-> status]))
      [] call.pc = "persist" ->
           Res(updateInventoryRequestStatus(db, call.id, call.status, call.user,
                                            call.itemStatuses),
               Goto(call, "notify"))
      [] call.pc = "notify" ->
           Res(createNotification(db,
                  [userId |-> call.request.employeeId,
                   type |-> IF call.approvedCount > 0 THEN "success" ELSE "alert"]),
               Goto(call, "push"))
      [] call.pc = "push" ->
           Res(db, FinishWith(
                  [call EXCEPT !.emitted =
                      emitRequestChange(
                          emitNotification(@, call.request.employeeId), "update")],
                  "ok",
                  [id |-> call.id, createdItems |-> call.createdItems,
                   approvedCount |-> call.approvedCount,
                   deniedCount |-> call.deniedCount]))

(***************************************************************************)
(* POST /api/released-orders/request: an employee asks for a release.      *)
(* A line of the request: inventoryItemId, quantity, amount.               *)
(***************************************************************************)
\* The head every released-order request is sent with: departmentOffice, rsNo
\* and isPartial (createReleasedOrderRequestSchema, lines 48-53).
Office == "GSO"

Slip == [departmentOffice |-> Office, rsNo |-> "RS-1", isPartial |-> FALSE]

SubmitReleaseCall(u, items) ==
    [op |-> "submitRelease", pc |-> "check", outcome |-> "none",
     user |-> u, items |-> items, emitted |-> EmptyBag]

\* The answer of a submit, with what the call was sent.
Answered(call, outcome) ==
    FinishWith(call, outcome, [items |-> call.items])

\* A route that lets every role submit.
SubmitsDirectly_Nobody(u) == FALSE

\* Line 1174: admins generate directly and submit no request.
SubmitsDirectly(u) == Role(u) = "admin"

\* A submit that looks at no item.
PreCheck_Skip(db, items) == "ok"

\* Lines 1181-1193: the first line that fails decides the answer.
RECURSIVE PreCheck(_, _)
PreCheck(db, items) ==
    IF items = <<>> THEN "ok"
    ELSE LET item == Head(items)
             inventoryItem == getInventoryItemById(db, item.inventoryItemId)
         IN IF inventoryItem = Undefined THEN "notfound"
            ELSE IF inventoryItem.quantity < item.quantity THEN "insufficient"
            ELSE PreCheck(db, Tail(items))

SubmitReleaseStep(db, call) ==
    CASE call.pc = "check" ->
           IF call.items = <<>> THEN Res(db, Answered(call, "validation"))
           ELSE IF SubmitsDirectly(call.user) THEN Res(db, Answered(call, "rejected"))
           ELSE IF PreCheck(db, call.items) # "ok"
           THEN Res(db, Answered(call, PreCheck(db, call.items)))
           ELSE Res(db, Goto(call, "create"))
      [] call.pc = "create" ->
           Res(createReleasedOrderRequest(db,
                  Merge([employeeId |-> call.user, items |-> call.items], Slip)),
               Merge(Goto(call, "notify"), [todo |-> AdminsAmong(Users)]))
      [] call.pc \in {"notify", "push"} ->
           IF call.todo # {} THEN FanOut(db, call)
           ELSE Res(db, Answered([call EXCEPT !.emitted =
                                     emitRequestChange(@, "create")],
                                 "ok"))

(***************************************************************************)
(* POST /api/released-orders/requests/:id/review: an admin reviews a       *)
(* released-order request.  body = {status, itemDecisions?}.               *)
(***************************************************************************)
ReviewReleaseCall(u, id, body) ==
    [op |-> "reviewRelease", pc |-> "load", outcome |-> "none",
     user |-> u, id |-> id, body |-> body, emitted |-> EmptyBag]

\* A review that does not look at the status.
Reviewable_Always(request) == TRUE

\* Line 1272: only a pending request is reviewed.
Reviewable(request) == request.status = "pending"

\* Lines 1281-1286.
RECURSIVE DecisionStatuses(_, _)
DecisionStatuses(itemStatuses, decisions) ==
    IF decisions = <<>> THEN itemStatuses
    ELSE DecisionStatuses(Put(itemStatuses, Head(decisions).index,
                              Head(decisions).status),
                          Tail(decisions))

\* Lines 1289-1291.
BlanketStatuses(items, status) ==
    [i \in 0..(Len(items) - 1) |->
        IF status = "denied" THEN "denied" ELSE "approved"]

\* Lines 1276-1292.
ReleaseItemStatuses(request, body) ==
    IF "itemDecisions" \in DOMAIN body
    THEN DecisionStatuses(<<>>, body.itemDecisions)
    ELSE BlanketStatuses(request.items, body.status)

ReviewReleaseStep(db, call) ==
    CASE call.pc = "load" ->
           IF ~requireRole({"admin"}, call.user)
           THEN Res(db, FinishWith(call, "forbidden", [id |-> call.id]))
           ELSE LET request == getReleasedOrderRequestById(db, call.id)
                IN IF request = Undefined THEN Res(db, FinishWith(call, "notfound", [id |-> call.id]))
                   ELSE IF ~Reviewable(request)
                   THEN Res(db, FinishWith(call, "conflict", [id |-> call.id]))
                   ELSE Res(db, Merge(Goto(call, "persist"), [request |-> request]))
      [] call.pc = "persist" ->
           Res(updateReleasedOrderRequestStatus(db, call.id, call.body.status,
                  call.user, ReleaseItemStatuses(call.request, call.body)),
               Goto(call, "notify"))
      [] call.pc = "notify" ->
           Res(createNotification(db,
                  [userId |-> call.request.employeeId,
                   type |-> IF call.body.status = "denied" THEN "alert"
                            ELSE "success"]),
               Goto(call, "push"))
      [] call.pc = "push" ->
           Res(db, FinishWith(
                  [call EXCEPT !.emitted =
                      emitRequestChange(
                          emitNotification(@, call.request.employeeId), "update")],
                  "ok", [id |-> call.id]))

(***************************************************************************)
(* POST /api/released-orders/notify-insufficient: any signed-in user tells *)
(* the admins that an item is short.  The body only feeds the message.     *)
(***************************************************************************)
NotifyInsufficientCall(u) ==
    [op |-> "notifyInsufficient", pc |-> "user", outcome |-> "none",
     user |-> u, emitted |-> EmptyBag]

\* The users row of the session's user: undefined once the user was deleted.
getUserById(u) ==
    IF u \in Users THEN [id |-> u, role |-> Role(u)] ELSE Undefined

NotifyInsufficientStep(db, call) ==
    IF call.pc = "user"
    THEN IF getUserById(call.user) = Undefined THEN Res(db, Finish(call, "notfound"))
         ELSE Res(db, Merge(Goto(call, "notify"), [todo |-> AdminsAmong(Users)]))
    ELSE IF call.todo # {} THEN FanOut(db, call)
    ELSE Res(db, Finish(call, "ok"))

(***************************************************************************)
(* POST /api/released-orders/generate: deduct the stock and record the     *)
(* report.  body = {requestId?, items?, departmentOffice, rsNo?,           *)
(* isPartial?}.                                                            *)
(***************************************************************************)
\* Line 1403: Math.floor(Math.random() * 10000), the number the call will draw.
SroRange == 10000
SroDraws == 0..(SroRange - 1)

\* Line 1403: "SRO-<year>-<number padded to 4 digits>"; the calls of a run fall
\* in one year, and padStart(4, '0') keeps the numbers 0..9999 apart.
SroNo(random) == <<"SRO", random>>

\* random: what Math.random() gives this call at line 1403.
GenerateCall(u, body, random) ==
    [op |-> "generate", pc |-> "resolve", outcome |-> "none",
     user |-> u, body |-> body, deducted |-> <<>>, random |-> random,
     history |-> <<>>, audit |-> <<>>]

\* A laxer filter: every line that was not denied, so also the lines with no entry.
ApprovedLines_NotDenied(request) ==
    LET idx == {i \in 0..(Len(request.items) - 1) :
                  ~(i \in DOMAIN request.itemStatuses
                    /\ request.itemStatuses[i] = "denied")}
        F[k \in 0..Len(request.items)] ==
            IF k = 0 THEN <<>>
            ELSE IF (k - 1) \in idx THEN Append(F[k - 1], request.items[k])
            ELSE F[k - 1]
    IN F[Len(request.items)]

\* Lines 1353-1358: the lines whose own entry is approved.
ApprovedLines(request) ==
    LET idx == {i \in 0..(Len(request.items) - 1) :
                  i \in DOMAIN request.itemStatuses
                  /\ request.itemStatuses[i] = "approved"}
        F[k \in 0..Len(request.items)] ==
            IF k = 0 THEN <<>>
            ELSE IF (k - 1) \in idx THEN Append(F[k - 1], request.items[k])
            ELSE F[k - 1]
    IN F[Len(request.items)]

\* A path that takes a request of any status.
Generatable_Any(request) == TRUE

\* Line 1348.
Generatable(request) == request.status \in {"approved", "partial"}

\* A validation loop with the stock check left out.
Insufficient_Never(inventoryItem, item) == FALSE

\* Line 1377.
Insufficient(inventoryItem, item) == inventoryItem.quantity < item.quantity

\* A deduction that takes the amount of the line off the amount of the item.
Deduction_ByLineAmount(inventoryItem, item) ==
    [quantity |-> inventoryItem.quantity - item.quantity,
     amount |-> inventoryItem.amount - item.amount]

\* Lines 1388-1394: what the deduction writes to the item it has just read.
Deduction(inventoryItem, item) ==
    LET newQuantity == inventoryItem.quantity - item.quantity
        newAmount == newQuantity * inventoryItem.unitCost
    IN [quantity |-> newQuantity, amount |-> newAmount]

\* The loops over itemsToRelease: where the handler goes after line k.
AfterValidate(call) ==
    IF call.k < Len(call.itemsToRelease)
    THEN [call EXCEPT !.k = @ + 1]
    ELSE [call EXCEPT !.pc = "deductRead", !.k = 1]

AfterDeduct(call) ==
    IF call.k < Len(call.itemsToRelease)
    THEN [call EXCEPT !.pc = "deductRead", !.k = @ + 1]
    ELSE [call EXCEPT !.pc = "report"]

Resolved(call, itemsToRelease, head) ==
    Merge(call, [itemsToRelease |-> itemsToRelease, k |-> 1, head |-> head,
                 pc |-> IF itemsToRelease = <<>> THEN "report" ELSE "validate"])

\* Lines 56-63 and 286-294: generateReleasedOrderSchema.parse(req.body).
generateReleasedOrderSchema(body) ==
    /\ "departmentOffice" \in DOMAIN body /\ body.departmentOffice # ""
    /\ "items" \in DOMAIN body =>
          \A k \in DOMAIN body.items :
              body.items[k].quantity > 0 /\ body.items[k].amount >= 0

\* Lines 1329-1331 and 1360-1362: the head of the report, taken from the body
\* on the admin path and from the stored request on the employee path
\* (request.rsNo || undefined).
BodyHead(body) ==
    [departmentOffice |-> body.departmentOffice,
     rsNo |-> IF "rsNo" \in DOMAIN body THEN body.rsNo ELSE "undefined",
     isPartial |-> IF "isPartial" \in DOMAIN body THEN body.isPartial ELSE FALSE]

RequestHead(request) ==
    [departmentOffice |-> request.departmentOffice,
     rsNo |-> IF request.rsNo # "" THEN request.rsNo ELSE "undefined",
     isPartial |-> request.isPartial]

\* A call turned away before any item is read answers with its error only.
Rejected(call, outcome) == FinishWith(call, outcome, [body |-> call.body])

GenerateStep(db, call) ==
    CASE call.pc = "resolve" ->
           IF ~generateReleasedOrderSchema(call.body)
           THEN Res(db, Rejected(call, "validation"))
           ELSE IF Role(call.user) = "employee"
           THEN IF "requestId" \notin DOMAIN call.body
                THEN Res(db, Rejected(call, "validation"))
                ELSE LET request == getReleasedOrderRequestById(db, call.body.requestId)
                     IN IF request = Undefined
                        THEN Res(db, Rejected(call, "notfound"))
                        ELSE IF request.employeeId # call.user
                        THEN Res(db, Rejected(call, "forbidden"))
                        ELSE IF ~Generatable(request)
                        THEN Res(db, Rejected(call, "notapproved"))
                        ELSE Res(db, Resolved(call, ApprovedLines(request),
                                              RequestHead(request)))
           ELSE IF "items" \notin DOMAIN call.body \/ call.body.items = <<>>
                THEN Res(db, Rejected(call, "validation"))
                ELSE Res(db, Resolved(call, call.body.items, BodyHead(call.body)))
      [] call.pc = "validate" ->
           LET item == call.itemsToRelease[call.k]
               inventoryItem == getInventoryItemById(db, item.inventoryItemId)
           IN IF inventoryItem = Undefined
              THEN Res(db, FinishWith(call, "notfound",
                          [deducted |-> call.deducted, k |-> call.k]))
              ELSE IF Insufficient(inventoryItem, item)
              THEN Res(db, FinishWith(call, "insufficient",
                          [deducted |-> call.deducted, k |-> call.k]))
              ELSE Res(db, AfterValidate(call))
      [] call.pc = "deductRead" ->
           LET item == call.itemsToRelease[call.k]
               inventoryItem == getInventoryItemById(db, item.inventoryItemId)
           IN IF inventoryItem = Undefined
              THEN Res(db, AfterDeduct(call))
              ELSE Res(db, Merge(Goto(call, "deductWrite"),
                                 [inventoryItem |-> inventoryItem]))
      [] call.pc = "deductWrite" ->
           LET item == call.itemsToRelease[call.k]
           IN Res(updateInventoryItem(db, item.inventoryItemId,
                     Deduction(call.inventoryItem, item)),
                  AfterDeduct([call EXCEPT !.deducted = Append(@, item)]))
      [] call.pc = "report" ->
           LET report == Merge([sroNo |-> SroNo(call.random),
                                items |-> call.itemsToRelease,
                                totalAmount |->
                                    SumSeq([i \in DOMAIN call.itemsToRelease |->
                                               call.itemsToRelease[i].amount]),
                                releasedBy |-> call.user],
                               call.head)
           IN Res(createReleasedOrderReport(db, report),
                  FinishWith(call, "ok",
                     [deducted |-> call.deducted, report |-> report,
                      body |-> call.body]))

(***************************************************************************)
(* One step of a handler, and a handler run to completion.                 *)
(***************************************************************************)
Step(db, call) ==
    CASE call.op = "createInventory" -> CreateInventoryStep(db, call)
      [] call.op = "bulkCreate" -> BulkCreateStep(db, call)
      [] call.op = "updateInventory" -> UpdateInventoryStep(db, call)
      [] call.op = "submitRequest" -> SubmitRequestStep(db, call)
      [] call.op = "reviewRequest" -> ReviewRequestStep(db, call)
      [] call.op = "submitRelease" -> SubmitReleaseStep(db, call)
      [] call.op = "reviewRelease" -> ReviewReleaseStep(db, call)
      [] call.op = "notifyInsufficient" -> NotifyInsufficientStep(db, call)
      [] call.op = "generate" -> GenerateStep(db, call)

RECURSIVE Run(_, _)
Run(db, call) ==
    IF call.pc = "done" THEN Res(db, call)
    ELSE LET r == Step(db, call) IN Run(r.db, r.call)

Commit(c, r) ==
    /\ inv' = r.db.inv
    /\ invReqs' = r.db.invReqs
    /\ relReqs' = r.db.relReqs
    /\ reports' = r.db.reports
    /\ notifs' = r.db.notifs
    /\ calls' = [calls EXCEPT ![c] = r.call]

\* The whole handler, from request to response, with no other handler in between.
Handle(call) == Commit(1, Run(DB, call))

(***************************************************************************)
(* Inputs of the handlers.                                                 *)
(***************************************************************************)
Statuses == {"approved", "denied", "partial"}
Decisions == [index : 0..MaxReqItems, status : {"approved", "denied"}]
BlanketBodies == [status : Statuses]
ReviewBodies ==
    BlanketBodies
    \cup [status : Statuses, itemDecisions : SeqsUpTo(Decisions, MaxReqItems)]

\* A generate body of an admin (items) and of an employee (requestId).
ItemsBody(items) == [items |-> items, departmentOffice |-> Office]
ItemsBodies(lines, n) == {ItemsBody(l) : l \in SeqsUpTo(lines, n)}
RequestIdBodies ==
    {[requestId |-> r, departmentOffice |-> Office] : r \in 1..(MaxRelReqs + 1)}
    \cup {[f \in {"departmentOffice"} |-> Office]}

\* The most items a review of the request may create.
MayCreate(request, body) ==
    IF PerItemPath(request, body) THEN Len(body.itemDecisions)
    ELSE Len(request.items)

(***************************************************************************)
(* The handlers as actions of the sequential specifications: each runs     *)
(* from request to response before the next one starts.  US is the set of  *)
(* callers, the other parameters the sets the request is drawn from.       *)
(***************************************************************************)
Slots == {1, 2}

\* A review reads its body only when an admin sends it for a request that exists:
\* the other calls are drawn with one body.
BodyRead(u, id, requests) == Role(u) = "admin" /\ id \in DOMAIN requests

CreateInventory(US, bodies) ==
    \E u \in US, body \in bodies :
        /\ Len(inv) < MaxItems
        /\ Handle(CreateInventoryCall(u, body))

BulkCreate(US, bodies) ==
    \E u \in US, items \in SeqsUpTo(bodies, 2) :
        /\ Len(inv) + Len(items) <= MaxItems
        /\ Handle(BulkCreateCall(u, items))

UpdateInventory(US, bodies) ==
    \E u \in US, id \in 1..(MaxItems + 1), body \in bodies :
        /\ inv # <<>>
        /\ Handle(UpdateInventoryCall(u, id, body))

SubmitRequest(US, payloads) ==
    \E u \in US, requestType \in {"single", "bulk"},
       items \in SeqsUpTo(payloads, MaxReqItems) :
        /\ Len(invReqs) < MaxInvReqs
        /\ BagCardinality(notifs) + Cardinality(Admins) <= MaxNotifs
        /\ requestType = "single" => Len(items) = 1
        /\ Handle(SubmitRequestCall(u, requestType, items))

ReviewRequest(US, bodies) ==
    \E u \in US, id \in 1..(MaxInvReqs + 1), body \in bodies :
        /\ BagCardinality(notifs) < MaxNotifs
        /\ BodyRead(u, id, invReqs) \/ body = [status |-> "approved"]
        /\ id \in DOMAIN invReqs => Len(inv) + MayCreate(invReqs[id], body) <= MaxItems
        /\ Handle(ReviewRequestCall(u, id, body))

SubmitRelease(US, lines) ==
    \E u \in US, items \in SeqsUpTo(lines, MaxReqItems) :
        /\ Len(relReqs) < MaxRelReqs
        /\ BagCardinality(notifs) + Cardinality(Admins) <= MaxNotifs
        /\ Handle(SubmitReleaseCall(u, items))

ReviewRelease(US, bodies) ==
    \E u \in US, id \in 1..(MaxRelReqs + 1), body \in bodies :
        /\ BagCardinality(notifs) < MaxNotifs
        /\ BodyRead(u, id, relReqs) \/ body = [status |-> "approved"]
        /\ Handle(ReviewReleaseCall(u, id, body))

NotifyInsufficient(US) ==
    \E u \in US :
        /\ BagCardinality(notifs) + Cardinality(Admins) <= MaxNotifs
        /\ Handle(NotifyInsufficientCall(u))

Generate(US, bodies, draws) ==
    \E u \in US, body \in bodies, random \in draws :
        /\ Len(reports) < MaxReports
        /\ Handle(GenerateCall(u, body, random))

(***************************************************************************)
(* Spec: the ledger.  The database starts empty; admins add and edit       *)
(* items, employees' inventory requests are approved into items, and       *)
(* admins release stock directly.                                          *)
(***************************************************************************)
Init ==
    /\ inv = <<>>
    /\ invReqs = <<>>
    /\ relReqs = <<>>
    /\ reports = <<>>
    /\ notifs = EmptyBag
    /\ calls = [c \in Slots |-> NoCall]

LedgerPayloads == {[quantity |-> 1, unitCost |-> 3, amount |-> 5]}

LedgerLines == [inventoryItemId : {1, 2}, quantity : {1}, amount : {3}]

Next ==
    \/ CreateInventory({"a1", "e1"}, ItemPayloads)
    \/ BulkCreate({"a1"}, ItemPayloads)
    \/ UpdateInventory({"a1"}, PatchBodies)
    \/ SubmitRequest({"e1"}, LedgerPayloads)
    \/ ReviewRequest({"a1"}, BlanketBodies)
    \/ Generate({"a1"}, ItemsBodies(LedgerLines, 1), {0})

Spec == Init /\ [][Next]_vars

(***************************************************************************)
(* SpecRequests: the inventory-request workflow, submit and review.        *)
(***************************************************************************)
NextRequests ==
    \/ SubmitRequest({"e1"}, RequestPayloads)
    \/ ReviewRequest({"a1", "e1"}, ReviewBodies)

SpecRequests == Init /\ [][NextRequests]_vars

(***************************************************************************)
(* SpecRelease: the release workflow, one handler at a time.  The ledger   *)
(* holds 10 units at 2 a unit and 4 units at 3 a unit; item 3 does not     *)
(* exist.  An employee submits a request, an admin reviews it, the         *)
(* employee generates the report; an admin may release directly meanwhile. *)
(***************************************************************************)
Stock ==
    << [quantity |-> 10, unitCost |-> 2, amount |-> 20],
       [quantity |-> 4, unitCost |-> 3, amount |-> 12] >>

InitRelease ==
    /\ inv = Stock
    /\ invReqs = <<>>
    /\ relReqs = <<>>
    /\ reports = <<>>
    /\ notifs = EmptyBag
    /\ calls = [c \in Slots |-> NoCall]

Line(id, quantity) == [inventoryItemId |-> id, quantity |-> quantity, amount |-> 5]

ReleaseLines == {Line(1, 6), Line(2, 2), Line(2, 6), Line(3, 2)}

\* What an admin releases directly: nothing, or 6 units of item 1.
DirectBodies == ItemsBodies({Line(1, 6)}, 1)

NextRelease ==
    \/ SubmitRelease({"e1", "a1"}, ReleaseLines)
    \/ ReviewRelease({"a1", "e1"}, ReviewBodies)
    \/ Generate({"e1", "e2"}, RequestIdBodies, {0})
    \/ Generate({"a1"}, DirectBodies, {0})

SpecRelease == InitRelease /\ [][NextRelease]_vars

(***************************************************************************)
(* The concurrent specifications: two handlers in flight, one per slot,    *)
(* each a different admin's session; their storage round-trips interleave. *)
(***************************************************************************)
SlotUser(c) == IF c = 1 THEN "a1" ELSE "a2"

InFlight(op) == Cardinality({c \in Slots : calls[c].op = op /\ calls[c].pc # "done"})

\* The handler starts: it runs up to its first storage round-trip.
Begin(c, call) ==
    /\ calls[c].pc = "done"
    /\ Commit(c, Step(DB, call))

\* The handler's next storage round-trip returns and it runs up to the next one.
Advance(c) ==
    /\ calls[c].pc # "done"
    /\ Commit(c, Step(DB, calls[c]))

\* Item lists that name an item at most once.
DistinctLists(lines, n) ==
    {l \in SeqsUpTo(lines, n) :
        \A i, j \in DOMAIN l : i # j => l[i].inventoryItemId # l[j].inventoryItemId}

RaceLines == {Line(1, 6), Line(2, 2), Line(3, 2)}

BeginGenerate(c) ==
    \E items \in DistinctLists(RaceLines, 2) :
        /\ Len(reports) + InFlight("generate") < MaxReports
        /\ Begin(c, GenerateCall(SlotUser(c), ItemsBody(items), 0))

NextGenerateRace ==
    \E c \in Slots : BeginGenerate(c) \/ Advance(c)

SpecGenerateRace == InitRelease /\ [][NextGenerateRace]_vars

(***************************************************************************)
(* SpecSubmit: employees submit inventory requests and released-order      *)
(* requests against the stock of SpecRelease, and report short items;      *)
(* nobody reviews.  x1 is signed in but no longer a user.                  *)
(***************************************************************************)
NextSubmit ==
    \/ SubmitRequest({"e1"}, RequestPayloads)
    \/ SubmitRelease({"e1", "a1"}, ReleaseLines)
    \/ NotifyInsufficient({"e1", "a1", "x1"})

SpecSubmit == InitRelease /\ [][NextSubmit]_vars

(***************************************************************************)
(* SpecSro: the release-order numbers.  Admins release stock directly,     *)
(* one call at a time; each call draws its number at random, here the      *)
(* least and the greatest number of the range.                             *)
(***************************************************************************)
SroLines == {Line(1, 2), Line(2, 2), Line(3, 2)}

NextSro == Generate(Admins, ItemsBodies(SroLines, 2), {0, SroRange - 1})

SpecSro == InitRelease /\ [][NextSro]_vars

(***************************************************************************)
(* SpecReviewRace: employee e1 has one pending inventory request and one   *)
(* pending released-order request, both admins were notified of each, and  *)
(* the two admins review at the same time.                                 *)
(***************************************************************************)
InitReviewRace ==
    /\ inv = <<>>
    /\ invReqs = <<[employeeId |-> "e1", requestType |-> "single",
                    items |-> <<[quantity |-> 1, unitCost |-> 3, amount |-> 5]>>,
                    itemStatuses |-> <<>>, status |-> "pending",
                    reviewedBy |-> "nobody"]>>
    /\ relReqs = <<Merge([employeeId |-> "e1", items |-> <<Line(1, 6)>>,
                           itemStatuses |-> <<>>, status |-> "pending",
                           reviewedBy |-> "nobody"], Slip)>>
    /\ reports = <<>>
    /\ notifs = [n \in {[userId |-> a, type |-> "alert"] : a \in Admins} |-> 2]
    /\ calls = [c \in Slots |-> NoCall]

BeginReviewRequest(c) ==
    \E body \in BlanketBodies :
        /\ BagCardinality(notifs) + InFlight("reviewRequest")
              + InFlight("reviewRelease") < MaxNotifs
        /\ Len(inv) + InFlight("reviewRequest") < MaxItems
        /\ Begin(c, ReviewRequestCall(SlotUser(c), 1, body))

BeginReviewRelease(c) ==
    \E body \in BlanketBodies :
        /\ BagCardinality(notifs) + InFlight("reviewRequest")
              + InFlight("reviewRelease") < MaxNotifs
        /\ Begin(c, ReviewReleaseCall(SlotUser(c), 1, body))

NextReviewRace ==
    \E c \in Slots : BeginReviewRequest(c) \/ BeginReviewRelease(c) \/ Advance(c)

SpecReviewRace == InitReviewRace /\ [][NextReviewRace]_vars

(***************************************************************************)
(* Properties.                                                             *)
(***************************************************************************)
(* SpecHistory: the ledger of categorized items.  The stock is one item of *)
(* category paper; admins add, edit and release items.                     *)
(***************************************************************************)
HistoryStock ==
    <<[quantity |-> 4, unitCost |-> 3, amount |-> 12, categoryId |-> "paper",
       location |-> "A"]>>

InitHistory ==
    /\ inv = HistoryStock
    /\ invReqs = <<>>
    /\ relReqs = <<>>
    /\ reports = <<>>
    /\ notifs = EmptyBag
    /\ calls = [c \in Slots |-> NoCall]

Plain == [quantity |-> 2, unitCost |-> 3, amount |-> 0]

Paper == [quantity |-> 2, unitCost |-> 3, amount |-> 0, categoryName |-> "paper"]

HistoryPayloads == {Plain, Paper}

HistoryPatches ==
    {[b \in {"quantity"} |-> 1], [b \in {"location"} |-> "B"],
     [b \in {"unitCost"} |-> 2]}

HistoryLines == {Line(1, 1), Line(2, 1)}

NextHistory ==
    \/ CreateInventory({"a1"}, HistoryPayloads)
    \/ BulkCreate({"a1"}, HistoryPayloads)
    \/ UpdateInventory({"a1"}, HistoryPatches)
    \/ Generate({"a1"}, ItemsBodies(HistoryLines, 1), {0})

SpecHistory == InitHistory /\ [][NextHistory]_vars

(***************************************************************************)
(* SpecApproval: inventory requests for categorized and uncategorized      *)
(* items are submitted and reviewed.                                       *)
(***************************************************************************)
NextApproval ==
    \/ SubmitRequest({"e1"}, HistoryPayloads)
    \/ ReviewRequest({"a1"}, ReviewBodies)

SpecApproval == Init /\ [][NextApproval]_vars

(***************************************************************************)
(* SpecNotify: two calls that notify users run concurrently, each once,    *)
(* against the stock of SpecRelease: a submit or a review of either kind   *)
(* of request, or a report of a short item.                                *)
(***************************************************************************)
Once(c, call) == calls[c].op = "none" /\ Begin(c, call)

NotifyPayloads == <<Plain>>

NotifyLines == <<Line(1, 6)>>

NotifyReview == [status |-> "approved"]

NextNotify ==
    \E c \in Slots :
        \/ Once(c, SubmitRequestCall("e1", "single", NotifyPayloads))
        \/ Once(c, ReviewRequestCall("a1", 1, NotifyReview))
        \/ Once(c, SubmitReleaseCall("e2", NotifyLines))
        \/ Once(c, ReviewReleaseCall("a2", 1, NotifyReview))
        \/ \E u \in {"e1", "x1"} : Once(c, NotifyInsufficientCall(u))
        \/ Advance(c)

SpecNotify == InitRelease /\ [][NextNotify]_vars

(***************************************************************************)
(* SpecDirect: admins release the stock of SpecRelease directly, one call  *)
(* at a time, with lists of up to two lines; a list may name an item twice *)
(* or name an item that does not exist.                                    *)
(***************************************************************************)
FourOfTen == [inventoryItemId |-> 1, quantity |-> 4, amount |-> 8]

DirectLines == {FourOfTen, Line(1, 6), Line(2, 1), Line(2, 3), Line(3, 2)}

NextDirect == Generate({"a1"}, ItemsBodies(DirectLines, 2), {0})

SpecDirect == InitRelease /\ [][NextDirect]_vars

(***************************************************************************)
(* SpecBody: employee e1 holds an approved request for 2 units of item 2.  *)
(* e1, and e2 who does not own the request, generate its report, one call  *)
(* at a time, with bodies that differ in the fields the employee path does *)
(* not use: items, departmentOffice, rsNo, isPartial.                      *)
(***************************************************************************)
ApprovedRequest ==
    Merge([employeeId |-> "e1", items |-> <<Line(2, 2)>>,
           itemStatuses |-> (0 :> "approved"), status |-> "approved",
           reviewedBy |-> "a1"], Slip)

InitBody ==
    /\ inv = Stock
    /\ invReqs = <<>>
    /\ relReqs = <<ApprovedRequest>>
    /\ reports = <<>>
    /\ notifs = EmptyBag
    /\ calls = [c \in Slots |-> NoCall]

SixOfOne == <<Line(1, 6)>>

BodyFields ==
    [items : {SixOfOne}, departmentOffice : {"", Office, "Budget"},
     rsNo : {"RS-2"}, isPartial : {TRUE}]

\* Every body with requestId 1 and any subset of the four fields.
EmployeeBodies ==
    {[f \in D \cup {"requestId"} |-> IF f = "requestId" THEN 1 ELSE b[f]] :
        D \in SUBSET {"items", "departmentOffice", "rsNo", "isPartial"},
        b \in BodyFields}

NextBody == Generate({"e1", "e2"}, EmployeeBodies, {0})

SpecBody == InitBody /\ [][NextBody]_vars

(***************************************************************************)
NonNegative == \A i \in DOMAIN inv : inv[i].quantity >= 0

\* What a call asked of item i, over the lines it names.
Taken(lines, i) ==
    SumSeq([k \in DOMAIN lines |->
              IF lines[k].inventoryItemId = i THEN lines[k].quantity ELSE 0])

Succeeded(c) ==
    calls[c].op = "generate" /\ calls[c].pc = "done" /\ calls[c].outcome = "ok"

\* The lines of a call that takes 6 units of item 1, which holds 10.
SixOfTen == <<Line(1, 6)>>

\* C1: under any interleaving of Generate calls no quantity goes below zero, and
\* two calls that each ask for 6 units of the item holding 10 never both succeed.
C1_NoOverDeduction ==
    /\ NonNegative
    /\ ~(\A c \in Slots : Succeeded(c) /\ calls[c].deducted = SixOfTen)

\* The live item fails the validation of the line: missing, or too few in stock.
ShortOrMissing(line) ==
    \/ line.inventoryItemId \notin DOMAIN inv
    \/ inv[line.inventoryItemId].quantity < line.quantity

Validating(c) == calls[c].op = "generate" /\ calls[c].pc = "validate"

Failed(call) ==
    /\ call.op = "generate" /\ call.pc = "done"
    /\ call.outcome \in {"notfound", "insufficient"}

\* C2: a Generate call whose validation meets a missing or short item ends there
\* with an error; up to that point it has changed no item and created no report,
\* and a call that ended so has deducted nothing.
C2_ValidateBeforeMutate ==
    /\ [](\A c \in Slots : Failed(calls[c]) =>
            calls[c].deducted = <<>> /\ "report" \notin DOMAIN calls[c])
    /\ [][\A c \in Slots :
            (Validating(c) /\ calls'[c] # calls[c]) =>
               /\ UNCHANGED data
               /\ ShortOrMissing(calls[c].itemsToRelease[calls[c].k]) =>
                     Failed(calls'[c])]_vars

\* C2 witness: a call failed on its second line, after its first line passed.
C2_Witness ==
    \E c \in Slots : Failed(calls[c]) /\ calls[c].outcome = "insufficient"
                     /\ calls[c].k = 2

\* The handler that ran in this step of a sequential specification.
Ran(op) == calls'[1].op = op

Terminal(request) == request.status \in Statuses

\* C3: a review of an inventory request that is already approved, denied or
\* partial fails with a conflict and changes no item, notification or request.
C3_ReReviewRejected ==
    [][\A id \in DOMAIN invReqs :
          (Ran("reviewRequest") /\ calls'[1].id = id
           /\ Role(calls'[1].user) = "admin" /\ Terminal(invReqs[id])) =>
             /\ calls'[1].outcome = "conflict"
             /\ UNCHANGED <<inv, notifs, invReqs>>]_vars

\* C4: a review of a released-order request that is not pending is rejected and
\* changes no request and no notification; a request's status changes only from
\* pending, to approved, denied or partial.
C4_ReleaseReviewOnce ==
    [][/\ \A id \in DOMAIN relReqs :
             (Ran("reviewRelease") /\ calls'[1].id = id
              /\ relReqs[id].status # "pending") =>
                /\ calls'[1].outcome \in {"conflict", "forbidden"}
                /\ UNCHANGED <<relReqs, notifs>>
       /\ \A id \in DOMAIN relReqs :
             relReqs'[id].status # relReqs[id].status =>
                relReqs[id].status = "pending" /\ Terminal(relReqs'[id])]_vars

\* C4 witness: an admin's review of an already reviewed request was rejected.
C4_Witness ==
    /\ calls[1].op = "reviewRelease" /\ calls[1].outcome = "conflict"
    /\ Role(calls[1].user) = "admin"
    /\ Terminal(relReqs[calls[1].id])

\* The notifications sent to employees: one per persisted review.
EmployeeNotifs ==
    BagCardinality([n \in {m \in BagToSet(notifs) : m.userId \in Employees} |->
                      notifs[n]])

\* C5: also with two reviews in flight a request gets its terminal state once:
\* a reviewed request is never written again, and the employee is notified at
\* most once per request.
C5_ReviewedOnce ==
    /\ [](EmployeeNotifs <= Len(invReqs) + Len(relReqs))
    /\ [][/\ \A id \in DOMAIN relReqs :
                Terminal(relReqs[id]) => relReqs'[id] = relReqs[id]
          /\ \A id \in DOMAIN invReqs :
                Terminal(invReqs[id]) => invReqs'[id] = invReqs[id]]_vars

\* The status the per-item entries of a reviewed request stand for.
AllEntries(request, status) ==
    \A i \in 0..(Len(request.items) - 1) :
        i \in DOMAIN request.itemStatuses /\ request.itemStatuses[i] = status

Derived(request) ==
    IF AllEntries(request, "approved") THEN "approved"
    ELSE IF AllEntries(request, "denied") THEN "denied"
    ELSE "partial"

\* C6: the persisted status of a reviewed inventory request is the one its
\* persisted per-item entries stand for.
C6_RequestStatusDerived ==
    \A id \in DOMAIN invReqs :
        Terminal(invReqs[id]) => invReqs[id].status = Derived(invReqs[id])

\* C7: the persisted status of a reviewed released-order request is the one its
\* persisted per-item entries stand for.
C7_ReleaseStatusDerived ==
    \A id \in DOMAIN relReqs :
        Terminal(relReqs[id]) => relReqs[id].status = Derived(relReqs[id])

\* C8: every inventory item's amount is its quantity times its unit cost.
C8_AmountDerived ==
    \A i \in DOMAIN inv : inv[i].amount = inv[i].quantity * inv[i].unitCost

\* C9: after any sequence of handlers, run one at a time, no quantity is negative.
C9_NonNegativeSequential == NonNegative

\* The lines of the request whose own entry is approved, as the claim reads.
OwnApproved(request) ==
    LET keep(k) == (k - 1) \in DOMAIN request.itemStatuses
                   /\ request.itemStatuses[k - 1] = "approved"
        F[k \in 0..Len(request.items)] ==
            IF k = 0 THEN <<>>
            ELSE IF keep(k) THEN Append(F[k - 1], request.items[k]) ELSE F[k - 1]
    IN F[Len(request.items)]

\* C10: an employee's Generate that succeeds is for the employee's own request,
\* records exactly the lines of that request whose entry is approved and lowers
\* the stock by exactly those lines; one that fails changes no item, no report.
C10_EmployeeGeneratesApproved ==
    [][(Ran("generate") /\ Role(calls'[1].user) = "employee") =>
          IF calls'[1].outcome = "ok"
          THEN LET request == relReqs[calls'[1].body.requestId]
               IN /\ request.employeeId = calls'[1].user
                  /\ reports' = Append(reports, calls'[1].report)
                  /\ calls'[1].report.items = OwnApproved(request)
                  /\ \A i \in DOMAIN inv :
                        inv'[i].quantity =
                           inv[i].quantity - Taken(OwnApproved(request), i)
          ELSE UNCHANGED <<inv, reports>>]_vars

\* C10 witness: an employee generated a report that holds some but not all of the
\* lines of the request.
C10_Witness ==
    /\ Succeeded(1) /\ Role(calls[1].user) = "employee"
    /\ calls[1].report.items # <<>>
    /\ Len(calls[1].report.items) < Len(relReqs[calls[1].body.requestId].items)

\* C11: an employee's Generate with no requestId, for a request that does not
\* exist, for another employee's request, or for a pending or denied request, is
\* rejected with the matching error and changes no item and no report.
C11_EmployeeGenerateRejected ==
    [][(Ran("generate") /\ Role(calls'[1].user) = "employee"
        /\ "body" \in DOMAIN calls'[1]) =>
          LET body == calls'[1].body
              rejection ==
                  IF "requestId" \notin DOMAIN body THEN "validation"
                  ELSE IF body.requestId \notin DOMAIN relReqs THEN "notfound"
                  ELSE IF relReqs[body.requestId].employeeId # calls'[1].user
                  THEN "forbidden"
                  ELSE IF relReqs[body.requestId].status \in {"pending", "denied"}
                  THEN "notapproved"
                  ELSE "none"
          IN rejection # "none" =>
                calls'[1].outcome = rejection /\ UNCHANGED <<inv, reports>>]_vars

\* C11 witness: an employee was turned away from their own denied request.
C11_Witness ==
    /\ calls[1].op = "generate" /\ calls[1].outcome = "notapproved"
    /\ relReqs[calls[1].body.requestId].employeeId = calls[1].user
    /\ relReqs[calls[1].body.requestId].status = "denied"

\* The reports an employee released and the requests the employee owns.  A
\* report of an employee comes from one of that employee's requests.
ReportsOf(u) == {i \in DOMAIN reports : reports[i].releasedBy = u}
RequestsOf(u) == {id \in DOMAIN relReqs : relReqs[id].employeeId = u}

\* C12: at most one report is generated from a released-order request, so an
\* employee never holds more reports than requests.
C12_OneReportPerRequest ==
    \A u \in Employees : Cardinality(ReportsOf(u)) <= Cardinality(RequestsOf(u))

\* C13: no two reports carry the same release-order number.
C13_SroNoUnique ==
    \A i, j \in DOMAIN reports :
        reports[i].sroNo = reports[j].sroNo => i = j

\* The persisted entries of a request are those of its item indexes 0..n-1.
Covered(request) == DOMAIN request.itemStatuses = 0..(Len(request.items) - 1)

\* C14: a reviewed request, of either kind, holds one itemStatuses entry for
\* every index of its items and none for any other index.
C14_ItemStatusesCoverItems ==
    /\ \A id \in DOMAIN invReqs : Terminal(invReqs[id]) => Covered(invReqs[id])
    /\ \A id \in DOMAIN relReqs : Terminal(relReqs[id]) => Covered(relReqs[id])

\* The item indexes of a request whose persisted entry is approved.
ApprovedEntries(request) ==
    {i \in 0..(Len(request.items) - 1) :
        i \in DOMAIN request.itemStatuses /\ request.itemStatuses[i] = "approved"}

\* C15: a successful review of an inventory request creates one inventory item
\* for each item whose persisted entry is approved, with that item's quantity,
\* and no other item.
C15_OneItemPerApproval ==
    [][(Ran("reviewRequest") /\ calls'[1].outcome = "ok") =>
          LET request == invReqs'[calls'[1].id]
              created == (Len(inv) + 1)..Len(inv')
          IN /\ Cardinality(created) = Cardinality(ApprovedEntries(request))
             /\ \A k \in created :
                   \E i \in ApprovedEntries(request) :
                      inv'[k].quantity = request.items[i + 1].quantity]_vars

\* C16: a successful review of an inventory request sends the employee one
\* notification, of type success when an item was approved (an entry persisted
\* as approved, an item created), and of type alert otherwise.
C16_NotificationType ==
    [][(Ran("reviewRequest") /\ calls'[1].outcome = "ok") =>
          LET request == invReqs'[calls'[1].id]
              type == IF ApprovedEntries(request) # {} THEN "success" ELSE "alert"
          IN notifs' = notifs (+) SetToBag({[userId |-> request.employeeId,
                                             type |-> type]})]_vars

\* C17: a released-order request with a line for a missing item, or for more
\* than the item holds, is answered with that error; no request is persisted,
\* no admin is notified and nothing is emitted.
C17_ShortSubmitRejected ==
    [][(Ran("submitRelease") /\ Role(calls'[1].user) = "employee"
        /\ \E k \in DOMAIN calls'[1].items : ShortOrMissing(calls'[1].items[k])) =>
          /\ calls'[1].outcome \in {"insufficient", "notfound"}
          /\ UNCHANGED <<relReqs, notifs>>
          /\ calls'[1].emitted = EmptyBag]_vars

\* C17 witness: a submit was refused for its second line, the first being in stock.
C17_Witness ==
    /\ calls[1].op = "submitRelease" /\ calls[1].outcome = "insufficient"
    /\ Len(calls[1].items) = 2
    /\ ~ShortOrMissing(calls[1].items[1])
    /\ relReqs = <<>>

\* C18: a submit of a released-order request by an admin is rejected, persists
\* no request and no notification and emits nothing; so every released-order
\* request belongs to an employee.
C18_AdminSubmitRejected ==
    /\ [](\A id \in DOMAIN relReqs : relReqs[id].employeeId \in Employees)
    /\ [][(Ran("submitRelease") /\ calls'[1].user \in Admins) =>
             /\ calls'[1].outcome \in {"rejected", "validation"}
             /\ UNCHANGED <<relReqs, notifs>>
             /\ calls'[1].emitted = EmptyBag]_vars

\* C18 witness: an admin's submit, every line of it in stock, was rejected.
C18_Witness ==
    /\ calls[1].op = "submitRelease" /\ calls[1].user \in Admins
    /\ calls[1].outcome = "rejected"
    /\ \A k \in DOMAIN calls[1].items : ~ShortOrMissing(calls[1].items[k])

\* C19: a review of a released-order request, whatever it decides, changes no
\* inventory item and creates no report.
C19_ReviewLeavesLedger ==
    [][Ran("reviewRelease") => UNCHANGED <<inv, reports>>]_vars

\* C19 witness: a request was approved and the stock is what it was.
C19_Witness ==
    /\ calls[1].op = "reviewRelease" /\ calls[1].outcome = "ok"
    /\ relReqs[calls[1].id].status = "approved"
    /\ 0 \in ApprovedEntries(relReqs[calls[1].id])
    /\ inv = Stock /\ reports = <<>>

\* The table grew by one request, which is pending, unreviewed and the caller's.
Submitted(before, after, u) ==
    /\ Len(after) = Len(before) + 1
    /\ SubSeq(after, 1, Len(before)) = before
    /\ after[Len(after)].status = "pending"
    /\ after[Len(after)].itemStatuses = <<>>
    /\ after[Len(after)].employeeId = u

\* C20: a submit of an inventory request or of a released-order request, whether
\* it succeeds or fails, leaves the inventory as it was; one that succeeds adds
\* one pending request, one that fails adds none.
C20_SubmitLeavesLedger ==
    [][/\ Ran("submitRequest") =>
             /\ inv' = inv /\ relReqs' = relReqs
             /\ IF calls'[1].outcome = "ok"
                THEN Submitted(invReqs, invReqs', calls'[1].user)
                ELSE invReqs' = invReqs
       /\ Ran("submitRelease") =>
             /\ inv' = inv /\ invReqs' = invReqs
             /\ IF calls'[1].outcome = "ok"
                THEN Submitted(relReqs, relReqs', calls'[1].user)
                ELSE relReqs' = relReqs]_vars

\* Two lines of 2 units of item 2, which holds 4.
TwiceTwo == <<Line(2, 2), Line(2, 2)>>

\* C20 witness: a request of each kind is pending, the released-order request
\* for all 4 units of item 2, and the stock is untouched.
C20_Witness ==
    /\ calls[1].op = "submitRelease" /\ calls[1].outcome = "ok"
    /\ Len(invReqs) = 1 /\ invReqs[1].status = "pending"
    /\ Len(relReqs) = 1 /\ relReqs[1].status = "pending"
    /\ relReqs[1].items = TwiceTwo
    /\ inv = Stock

\* The location of an item (null when it was created without one).
Location(item) == IF "location" \in DOMAIN item THEN item.location ELSE "none"

\* The item id is new, or its quantity, location or unit cost changes in this step.
Mutated(id) ==
    \/ id \notin DOMAIN inv
    \/ inv'[id].quantity # inv[id].quantity
    \/ Location(inv'[id]) # Location(inv[id])
    \/ inv'[id].unitCost # inv[id].unitCost

\* The category_history rows the call inserted for the item id.
HistoryFor(call, id) == {k \in DOMAIN call.history : call.history[k].itemId = id}

\* C21: the category history mirrors the ledger: a handler that creates a
\* categorized item, or changes the quantity, location or unit cost of one (a
\* Generate deduction included), inserts exactly one category_history row for
\* that item.
C21_HistoryMirrorsLedger ==
    [][\A id \in DOMAIN inv' :
          (Categorized(inv'[id]) /\ Mutated(id)) =>
              Cardinality(HistoryFor(calls'[1], id)) = 1]_vars

\* The audit_events rows with action create the call logged for the item id.
CreateAuditsFor(call, id) ==
    {k \in DOMAIN call.audit :
        call.audit[k].entityId = id /\ call.audit[k].action = "create"}

\* C22: for every inventory item a review of an inventory request creates, the
\* review logs one audit event with action create for the item, and inserts
\* one category_history row item_added exactly when the item has a category.
C22_ApprovalLogged ==
    [][Ran("reviewRequest") =>
          \A id \in (Len(inv) + 1)..Len(inv') :
              /\ Cardinality(CreateAuditsFor(calls'[1], id)) = 1
              /\ Cardinality(HistoryFor(calls'[1], id))
                    = IF Categorized(inv'[id]) THEN 1 ELSE 0
              /\ \A k \in HistoryFor(calls'[1], id) :
                    calls'[1].history[k].changeType = "item_added"]_vars

\* C23: a review of an inventory request either succeeds, and the request then
\* has a terminal status, or fails leaving no trace: no inventory item was
\* created and the request is as it was before the call.
C23_ReviewAllOrNothing ==
    [][Ran("reviewRequest") =>
          IF calls'[1].outcome = "ok"
          THEN Terminal(invReqs'[calls'[1].id])
          ELSE inv' = inv /\ invReqs' = invReqs]_vars

\* The notification events the calls have emitted to the user's room, and the
\* user's rows in the notifications table.
Emitted(call) == IF "emitted" \in DOMAIN call THEN call.emitted ELSE EmptyBag

Pushed(u) ==
    SumSeq([c \in Slots |->
               CopiesIn([event |-> "notification", to |-> u], Emitted(calls[c]))])

Rows(u) ==
    CopiesIn([userId |-> u, type |-> "alert"], notifs)
    + CopiesIn([userId |-> u, type |-> "success"], notifs)

\* C24: persist first, push after: at every moment every notification event
\* emitted to a user has its row in the notifications table, inserted before
\* the event was emitted; and no step removes a notification row or a request.
C24_PersistBeforePush ==
    /\ [](\A u \in Users : Pushed(u) <= Rows(u))
    /\ [][/\ notifs \sqsubseteq notifs'
          /\ Len(invReqs') >= Len(invReqs)
          /\ Len(relReqs') >= Len(relReqs)]_vars

\* Both calls have pushed to a2 and ended, and a2 has the two rows.
C24_Witness ==
    /\ \A c \in Slots : calls[c].pc = "done" /\ calls[c].outcome = "ok"
    /\ Pushed("a2") = 2
    /\ Rows("a2") = 2

\* One alert row for each admin.
AdminAlerts == SetToBag({[userId |-> a, type |-> "alert"] : a \in Admins})

\* C25: every successful submit of an inventory request or of a released-order
\* request, and every notify-insufficient call by an existing user, inserts
\* exactly one alert row for each admin and no other notification row; the
\* notify-insufficient call succeeds and changes no request and no item.
C25_FanOutToAdmins ==
    [][/\ (/\ Ran("submitRequest") \/ Ran("submitRelease")
               \/ Ran("notifyInsufficient")
           /\ calls'[1].outcome = "ok")
          => notifs' = notifs (+) AdminAlerts
       /\ Ran("notifyInsufficient") =>
             /\ calls'[1].user \in Users => calls'[1].outcome = "ok"
             /\ UNCHANGED <<inv, invReqs, relReqs, reports>>]_vars

\* An employee has reported a short item: the admins have one alert each, the
\* employees none, and there is no request.
C25_Witness ==
    /\ calls[1].op = "notifyInsufficient" /\ calls[1].user = "e1"
    /\ calls[1].outcome = "ok"
    /\ notifs = AdminAlerts
    /\ invReqs = <<>> /\ relReqs = <<>>

\* The lines of the list name each item at most once.
Distinct(items) ==
    \A i, j \in DOMAIN items : i # j => items[i].inventoryItemId # items[j].inventoryItemId

\* The lines of the list for the item id.
LinesFor(items, id) == {k \in DOMAIN items : items[k].inventoryItemId = id}

\* C26: a successful direct Generate of an admin over distinct items lowers each
\* named item by the quantity of its line and sets its amount to the new
\* quantity times the unit cost, leaves every other item as it was, and adds
\* exactly one report, whose totalAmount is the sum of the amounts of the lines.
C26_DirectGenerate ==
    [][(/\ Ran("generate") /\ calls'[1].outcome = "ok"
        /\ Role(calls'[1].user) = "admin"
        /\ Distinct(calls'[1].body.items)) =>
          LET items == calls'[1].body.items
          IN /\ DOMAIN inv' = DOMAIN inv
             /\ \A id \in DOMAIN inv :
                   /\ \A k \in LinesFor(items, id) :
                         /\ inv'[id].quantity = inv[id].quantity - items[k].quantity
                         /\ inv'[id].amount = inv'[id].quantity * inv[id].unitCost
                         /\ inv'[id].unitCost = inv[id].unitCost
                   /\ LinesFor(items, id) = {} => inv'[id] = inv[id]
             /\ Len(reports') = Len(reports) + 1
             /\ SubSeq(reports', 1, Len(reports)) = reports
             /\ reports'[Len(reports')].items = items
             /\ reports'[Len(reports')].totalAmount
                   = SumSeq([k \in DOMAIN items |-> items[k].amount])]_vars

\* 4 of the 10 units at cost 2 were released for 8: the item holds 6 for 12, the
\* other item is untouched and the one report totals 8.
C26_Witness ==
    /\ calls[1].op = "generate" /\ calls[1].outcome = "ok"
    /\ calls[1].body.items = <<FourOfTen>>
    /\ inv[1].quantity = 6 /\ inv[1].amount = 12
    /\ inv[2] = Stock[2]
    /\ Len(reports) = 1 /\ reports[1].totalAmount = 8

\* The quantity a report records for the item id.
ReportQuantity(report, id) ==
    SumSeq([k \in DOMAIN report.items |->
               IF report.items[k].inventoryItemId = id
               THEN report.items[k].quantity ELSE 0])

Released(id) == SumSeq([r \in DOMAIN reports |-> ReportQuantity(reports[r], id)])

\* C27: conservation of stock: once the Generate calls have ended, however they
\* interleaved, each item holds its initial quantity minus the quantities the
\* reports record for it.
C27_StockConserved ==
    (\A c \in Slots : calls[c].pc = "done") =>
        \A id \in DOMAIN inv : inv[id].quantity = Stock[id].quantity - Released(id)

\* The item id holds at least what the lines of the list ask of it in total.
Covers(items, id) ==
    SumSeq([k \in DOMAIN items |->
               IF items[k].inventoryItemId = id THEN items[k].quantity ELSE 0])
        <= inv[id].quantity

\* C28: a Generate whose list names an item in more than one line succeeds only
\* if the item holds the sum of the quantities of those lines; otherwise it
\* fails and changes no item, so that no quantity goes below zero.
C28_RepeatedLinesSummed ==
    [][Ran("generate") =>
          IF calls'[1].outcome = "ok"
          THEN (/\ "items" \in DOMAIN calls'[1].body
                /\ Role(calls'[1].user) = "admin"
                /\ ~Distinct(calls'[1].body.items)) =>
                  /\ \A id \in DOMAIN inv : Covers(calls'[1].body.items, id)
                  /\ \A id \in DOMAIN inv' : inv'[id].quantity >= 0
          ELSE inv' = inv]_vars

\* C29: every persisted report holds at least one released line; a Generate of
\* an employee on an approved or partial request with no approved entry
\* creates no report.
C29_NoEmptyReport == \A r \in DOMAIN reports : reports[r].items # <<>>

\* What the call would have done from the state before this step with the
\* body other in place of its own.
With(other) == Run(DB, GenerateCall(calls'[1].user, other, 0))

\* The fields of a report that C30 is about.
Heading(report) ==
    [items |-> report.items, departmentOffice |-> report.departmentOffice,
     rsNo |-> report.rsNo, isPartial |-> report.isPartial]

\* C30: on the employee path the outcome of Generate does not depend on the
\* items, departmentOffice, rsNo or isPartial of the body: any other body for
\* the same request gives, from the same state, the same answer, the same
\* deductions and a report with the same items, departmentOffice, rsNo and
\* isPartial, which are those of the stored request.
C30_BodyIgnored ==
    [][(Ran("generate") /\ Role(calls'[1].user) = "employee") =>
          /\ \A other \in EmployeeBodies :
                /\ With(other).call.outcome = calls'[1].outcome
                /\ With(other).db.inv = inv'
                /\ Len(With(other).db.reports) = Len(reports')
                /\ calls'[1].outcome = "ok" =>
                      Heading(With(other).call.report) = Heading(calls'[1].report)
          /\ calls'[1].outcome = "ok" =>
                LET request == relReqs[calls'[1].body.requestId]
                IN /\ calls'[1].report.departmentOffice = request.departmentOffice
                   /\ calls'[1].report.rsNo = request.rsNo
                   /\ calls'[1].report.isPartial = request.isPartial
                   /\ calls'[1].report.items = ApprovedLines(request)]_vars

====
